---- MODULE Spec2Model ----
(***************************************************************************)
(* Model of the microphone listener (mic_listener/listener.py): the        *)
(* PortAudio callback that enqueues raw frames, and the consumer loop of   *)
(* main() that classifies each frame, buffers an utterance and writes it   *)
(* as a clip after enough trailing silence.                                *)
(*                                                                         *)
(* Time is the wall clock in milliseconds (time.time() * 1000).  A frame   *)
(* put on the queue is a bytes object; here it is a record [id, sp, at]:   *)
(* sp is the verdict is_speech_chunk gives for those bytes (the classifier *)
(* is a pure function of the bytes), id is the frame's delivery number,    *)
(* kept to tell apart frames with equal contents, and at is the clock at   *)
(* delivery, which the bytes do not carry and no action reads: it is there *)
(* for the properties that speak of a frame's arrival time.                *)
(***************************************************************************)
EXTENDS Integers, Sequences, FiniteSets

VARIABLES
    now,            \* wall clock, ms
    silence_ms,     \* args.silence_ms
    block_ms,       \* args.block_ms
    tick_ms,        \* granularity with which the model lets the clock advance
    zone,           \* the local time zone of the process (TZ), see UtcOffset
    q,              \* queue.Queue of frames put by the callback
    delivered,      \* number of frames the callback has put
    due,            \* clock at which the driver has the next block ready
    pc,             \* position of the consumer loop of main()
    b,              \* the frame returned by q.get()
    recording,      \* recording
    buf,            \* buf: frames (ids) of the utterance in progress
    last_voice_ts,  \* last_voice_ts; 0 stands for None (both are falsy)
    ts,             \* ts of the clip being written (second resolution)
    writes,         \* clips written by write_wav, in order
    consumed,       \* history: ids of the frames returned by q.get(), in order
    episodes,       \* history: number of times recording went from False to True
    opener,         \* history: frame on which recording last became True, and when
    voice,          \* history: last frame classified speech, and when
    cause,          \* history: what ended the loop ("none" while it runs)
    torn,           \* names of clip files left partly written in AUDIO_DIR
    devs,           \* sd.query_devices(): the device list, in listing order
    preferred,      \* args.device, the selector given to pick_input_device
    chosen,         \* outcome of pick_input_device: an index, or an exception
    samples,        \* int16 samples of the frame given to is_speech_chunk
    verdict,        \* what is_speech_chunk returned for samples
    wpc,            \* position of the watcher loop of capture_and_parse.main()
    todo,           \* names of the listing the watcher's for-loop has yet to visit
    seen,           \* seen: paths the watcher has taken up
    handed,         \* history: calls of transcribe(), in order
    skipped,        \* history: visits that found the path in seen
    polls           \* number of listings the watcher has taken

vars == <<now, silence_ms, block_ms, tick_ms, zone, q, delivered, due, pc, b, recording,
          buf, last_voice_ts, ts, writes, consumed, episodes, opener, voice,
          devs, preferred, chosen, samples, verdict, wpc, todo, seen, handed,
          skipped, polls, cause, torn>>

config  == <<silence_ms, block_ms, tick_ms, zone>>
history == <<consumed, episodes, opener, voice>>
ending  == <<cause, torn>>

\* State the steps of the capture loop leave alone while it runs: device
\* resolution at startup, the energy classifier taken alone, the watcher
\* process, and what the end of the loop leaves behind.
startup    == <<devs, preferred, chosen>>
classifier == <<samples, verdict>>
watcher    == <<wpc, todo, seen, handed, skipped, polls>>
others     == <<startup, classifier, watcher, ending>>

\* Bounds of the exploration.
MaxTicks  == 6      \* clock advances of the free-running specification
MaxFrames == 4      \* frames the callback delivers in the free-running specification

\* Frame before the first q.get(): no frame.
NoFrame == [id |-> 0, sp |-> FALSE, at |-> 0]
NoEvent == [frame |-> NoFrame, at |-> 0]

\* The consumer is inside the while-loop (the stream is open).
Running == pc \in {"get", "classify", "check", "finalize", "write"}

Last(s) == s[Len(s)]

(***************************************************************************)
(* Helpers translated from expressions of the source.                      *)
(***************************************************************************)

\* Variant: a put at the head of the queue (a LIFO hand-off).
PutFront(queue, f) == <<f>> \o queue

\* line 129: q.put(item) adds at the tail of the FIFO queue.
Put(queue, f) == Append(queue, f)

\* line 121: queue.Queue() is built without a maxsize, which is maxsize 0.
QMaxSize == 0

\* Variant: a queue of capacity one, where a put waits while a frame is queued.
PutBlocksAtOne(queue, maxsize) == Len(queue) >= 1

\* line 129: q.put(item) waits only while a queue with a positive maxsize is full.
PutBlocks(queue, maxsize) == maxsize > 0 /\ Len(queue) >= maxsize

\* line 145: q.get() gives the head; QGet is the item, QRest what stays queued.
QGet(queue) == Head(queue)
QRest(queue) == Tail(queue)

\* A clock reading of t ms is the float t / 1000 (seconds).  It is that value
\* exactly when t is a multiple of 125 ms (a multiple of 1/8 s); any other
\* reading is the nearest double, a little above or below.
FloatExact(t) == t % 125 = 0

\* line 155: (time.time() - last_voice_ts) * 1000 is computed in binary floating
\* point.  With both readings exact so is the product; otherwise a product of
\* exactly s ms by the readings may come out just above s.  RoundsUp is the set
\* of outcomes: does the product of a difference of exactly s exceed s.
RoundsUp(t, lv) == IF FloatExact(t) /\ FloatExact(lv) THEN {FALSE} ELSE {FALSE, TRUE}

\* Variants: the test with >= for >, a test that does not wait at all, and a
\* test that leaves the factor 1000 out (seconds compared with silence_ms).
SilenceReached(t, lv, s, up) == lv # 0 /\ (t - lv) >= s
SilenceAlways(t, lv, s, up) == lv # 0 /\ (t - lv) >= 0
SilenceInSeconds(t, lv, s, up) == lv # 0 /\ (t - lv) > 1000 * s

\* line 155: last_voice_ts and (time.time() - last_voice_ts) * 1000 > args.silence_ms
SilenceExpired(t, lv, s, up) == lv # 0 /\ ((t - lv) > s \/ ((t - lv) = s /\ up))

\* The zone is [offset, back_at, back_by]: local time is UTC + offset seconds
\* until the instant back_at (UTC seconds), where the clocks are set back by
\* back_by seconds (the end of daylight saving); back_by = 0 is a zone
\* without a switch.
UtcOffset(sec) ==
    IF zone.back_by # 0 /\ sec >= zone.back_at
    THEN zone.offset - zone.back_by
    ELSE zone.offset

\* line 157: time.strftime("%Y%m%d_%H%M%S") formats the local time of the clock,
\* down to the second: the name is the local second.
ClipName(t) == (t \div 1000) + UtcOffset(t \div 1000)

\* A zone without a switch.
PlainZone == [offset |-> 0, back_at |-> 0, back_by |-> 0]

(***************************************************************************)
(* Initial states.                                                         *)
(***************************************************************************)
InitState ==
    /\ now = 1000
    /\ q = <<>>
    /\ delivered = 0
    /\ due = 1000
    /\ pc = "get"
    /\ b = NoFrame
    /\ recording = FALSE
    /\ buf = <<>>
    /\ last_voice_ts = 0
    /\ ts = 0
    /\ writes = <<>>
    /\ consumed = <<>>
    /\ episodes = 0
    /\ opener = NoEvent
    /\ voice = NoEvent
    /\ cause = "none"
    /\ torn = {}

\* Nothing outside the capture loop has acted: no device list queried, no frame
\* given to the classifier alone, no watcher process started.
NoChoice == [st |-> "unset", idx |-> 0]
NoVerdict == [done |-> FALSE, speech |-> FALSE]
NoSelector == [kind |-> "none", val |-> <<>>, num |-> 0]

OthersIdle ==
    /\ devs = <<>>
    /\ preferred = NoSelector
    /\ chosen = NoChoice
    /\ samples = <<>>
    /\ verdict = NoVerdict
    /\ wpc = "off"
    /\ todo = <<>>
    /\ seen = {}
    /\ handed = <<>>
    /\ skipped = {}
    /\ polls = 0

Init ==
    /\ InitState
    /\ OthersIdle
    /\ silence_ms \in {500, 1000}
    /\ block_ms = 500
    /\ tick_ms = 500
    /\ zone = PlainZone

(***************************************************************************)
(* Producer: the stream callback (lines 124-129).                          *)
(***************************************************************************)
Deliver(sp) ==
    /\ ~PutBlocks(q, QMaxSize)
    /\ q' = Put(q, [id |-> delivered + 1, sp |-> sp, at |-> now])
    /\ delivered' = delivered + 1
    /\ due' = now + block_ms
    /\ UNCHANGED <<now, config, others, pc, b, recording, buf, last_voice_ts, ts, writes,
                   history>>

\* The driver calls back once per block interval, whatever the consumer does.
Callback ==
    /\ Running
    /\ delivered < MaxFrames
    /\ now >= due
    /\ \E sp \in BOOLEAN : Deliver(sp)

(***************************************************************************)
(* Consumer: the loop of main() (lines 143-165).                           *)
(***************************************************************************)

\* line 145: b = q.get(); blocks while the queue is empty.
Get ==
    /\ pc = "get"
    /\ q # <<>>
    /\ b' = QGet(q)
    /\ q' = QRest(q)
    /\ consumed' = Append(consumed, QGet(q).id)
    /\ pc' = "classify"
    /\ UNCHANGED <<now, config, others, delivered, due, recording, buf, last_voice_ts, ts,
                   writes, episodes, opener, voice>>

\* History kept by the classification step: which frame was classified speech
\* and when, and on which frame recording went from False to True.
Note ==
    /\ voice' = IF b.sp THEN [frame |-> b, at |-> now] ELSE voice
    /\ opener' = IF recording' /\ ~recording THEN [frame |-> b, at |-> now] ELSE opener
    /\ episodes' = IF recording' /\ ~recording THEN episodes + 1 ELSE episodes

\* Variant: any frame opens a recording.
ClassifyAnyOpens ==
    /\ pc = "classify"
    /\ recording' = TRUE
    /\ buf' = IF recording THEN buf ELSE <<>>
    /\ last_voice_ts' = IF b.sp THEN now ELSE last_voice_ts
    /\ Note
    /\ pc' = "check"
    /\ UNCHANGED <<now, config, others, q, delivered, due, b, ts, writes, consumed>>

\* lines 146-151: a speech frame opens a recording when there is none, and
\* stamps last_voice_ts with the consumer's clock.
Classify ==
    /\ pc = "classify"
    /\ IF b.sp
       THEN /\ recording' = TRUE
            /\ buf' = IF recording THEN buf ELSE <<>>
            /\ last_voice_ts' = now
       ELSE UNCHANGED <<recording, buf, last_voice_ts>>
    /\ Note
    /\ pc' = "check"
    /\ UNCHANGED <<now, config, others, q, delivered, due, b, ts, writes, consumed>>

\* Variant: only speech frames are buffered.
CheckSpeechOnly ==
    /\ pc = "check"
    /\ IF recording
       THEN /\ buf' = IF b.sp THEN Append(buf, b.id) ELSE buf
            /\ \E up \in RoundsUp(now, last_voice_ts) :
                   pc' = IF SilenceExpired(now, last_voice_ts, silence_ms, up)
                         THEN "finalize" ELSE "get"
       ELSE /\ pc' = "get"
            /\ UNCHANGED buf
    /\ UNCHANGED <<now, config, others, q, delivered, due, b, recording, last_voice_ts, ts,
                   writes, history>>

\* Variant: frames are buffered in Idle too.
CheckBuffersInIdle ==
    /\ pc = "check"
    /\ buf' = Append(buf, b.id)
    /\ \E up \in RoundsUp(now, last_voice_ts) :
           pc' = IF recording /\ SilenceExpired(now, last_voice_ts, silence_ms, up)
                 THEN "finalize" ELSE "get"
    /\ UNCHANGED <<now, config, others, q, delivered, due, b, recording, last_voice_ts, ts,
                   writes, history>>

\* lines 152-155: while recording every frame is buffered, then the trailing
\* silence is tested against a second reading of the clock.
Check ==
    /\ pc = "check"
    /\ IF recording
       THEN /\ buf' = Append(buf, b.id)
            /\ \E up \in RoundsUp(now, last_voice_ts) :
                   pc' = IF SilenceExpired(now, last_voice_ts, silence_ms, up)
                         THEN "finalize" ELSE "get"
       ELSE /\ pc' = "get"
            /\ UNCHANGED buf
    /\ UNCHANGED <<now, config, others, q, delivered, due, b, recording, last_voice_ts, ts,
                   writes, history>>

\* lines 156-158 and 43: the clip is named after a third reading of the clock
\* and wave.open creates the file.
StartWrite ==
    /\ pc = "finalize"
    /\ ts' = ClipName(now)
    /\ pc' = "write"
    /\ UNCHANGED <<now, config, others, q, delivered, due, b, recording, buf, last_voice_ts,
                   writes, history>>

\* write_wav raising: wave.open at line 43 (directory unwritable; no file is
\* made), or writeframes and the close at lines 44-47 (disk full; the file made
\* by wave.open stays, partly written).  OSError is not KeyboardInterrupt, so it
\* leaves the try statement, the with statement and main(): the process dies.
WriteFail ==
    /\ pc \in {"finalize", "write"}
    /\ pc' = "crashed"
    /\ cause' = "write_error"
    /\ torn' = IF pc = "write" THEN torn \cup {ts} ELSE torn
    /\ UNCHANGED <<now, config, startup, classifier, watcher, q, delivered, due, b,
                   recording, buf, last_voice_ts, ts, writes, history>>

\* A clip as written: its name and frames; opened and voiced are the clock
\* readings at the opening frame and at the last speech frame of the utterance,
\* at is the clock when the write completed.
Clip(name) ==
    [name |-> name, frames |-> buf, opened |-> opener.at, voiced |-> last_voice_ts,
     at |-> now]

\* Variant: the clip is written and the state is not reset.
FinishWriteKeepsState ==
    /\ pc = "write"
    /\ writes' = Append(writes, Clip(ts))
    /\ pc' = "get"
    /\ UNCHANGED <<now, config, others, q, delivered, due, b, recording, buf, last_voice_ts,
                   ts, history>>

\* Variant: the clip is written and recording reset, the buffer is not cleared.
FinishWriteKeepsBuf ==
    /\ pc = "write"
    /\ writes' = Append(writes, Clip(ts))
    /\ recording' = FALSE
    /\ pc' = "get"
    /\ UNCHANGED <<now, config, others, q, delivered, due, b, buf, last_voice_ts, ts, history>>

\* lines 44-47 and 159-163: the frames are written, then the state is reset.
FinishWrite ==
    /\ pc = "write"
    /\ writes' = Append(writes, Clip(ts))
    /\ recording' = FALSE
    /\ buf' = <<>>
    /\ pc' = "get"
    /\ UNCHANGED <<now, config, others, q, delivered, due, b, last_voice_ts, ts, history>>

\* Variant: the buffered utterance is flushed to a clip on the way out.
InterruptFlush ==
    /\ Running
    /\ pc' = "done"
    /\ writes' = IF recording /\ buf # <<>>
                 THEN Append(writes, Clip(ClipName(now)))
                 ELSE writes
    /\ cause' = "interrupt"
    /\ UNCHANGED <<now, config, startup, classifier, watcher, torn, q, delivered, due,
                   b, recording, buf, last_voice_ts, ts, history>>

\* lines 164-165: Ctrl+C in the loop prints a farewell and leaves main()
\* normally; buf is dropped with the frame of main().  Inside write_wav the file
\* made by wave.open stays behind, partly written, and when the interrupt comes
\* before the header parameters are all set (lines 44-46) the close of the
\* with statement raises wave.Error in its place, which line 164 does not
\* catch: the process dies.
Interrupt ==
    /\ Running
    /\ cause' = "interrupt"
    /\ IF pc = "write"
       THEN /\ pc' \in {"done", "crashed"}
            /\ torn' = torn \cup {ts}
       ELSE /\ pc' = "done"
            /\ UNCHANGED torn
    /\ UNCHANGED <<now, config, startup, classifier, watcher, q, delivered, due, b,
                   recording, buf, last_voice_ts, ts, writes, history>>

(***************************************************************************)
(* The clock.                                                              *)
(***************************************************************************)
Tick ==
    /\ Running
    /\ now + tick_ms <= 1000 + MaxTicks * tick_ms
    /\ now' = now + tick_ms
    /\ UNCHANGED <<config, others, q, delivered, due, pc, b, recording, buf, last_voice_ts,
                   ts, writes, history>>

Next ==
    \/ Tick
    \/ Callback
    \/ Get
    \/ Classify
    \/ Check
    \/ StartWrite
    \/ WriteFail
    \/ FinishWrite
    \/ Interrupt

Spec == Init /\ [][Next]_vars

(***************************************************************************)
(* The scenario block_ms=30, silence_ms=150, [speech, speech, silence x 9]:*)
(* the driver delivers one frame every block_ms and the consumer handles   *)
(* each frame within the block interval that follows its delivery.         *)
(***************************************************************************)
ScenarioSpeech ==
    <<TRUE, TRUE, FALSE, FALSE, FALSE, FALSE, FALSE, FALSE, FALSE, FALSE, FALSE>>

InitScenario ==
    /\ InitState
    /\ OthersIdle
    /\ silence_ms = 150
    /\ block_ms = 30
    /\ tick_ms = 10
    /\ zone = PlainZone

ScenarioCallback ==
    /\ Running
    /\ delivered < Len(ScenarioSpeech)
    /\ now = due
    /\ Deliver(ScenarioSpeech[delivered + 1])

\* The clock moves on once the frame due now is delivered, and reaches the next
\* delivery only when the consumer is through with the frames delivered so far.
TickPaced ==
    /\ Running
    /\ now + tick_ms <= due
    /\ (now + tick_ms = due) =>
           (q = <<>> /\ pc = "get" /\ delivered < Len(ScenarioSpeech))
    /\ now' = now + tick_ms
    /\ UNCHANGED <<config, others, q, delivered, due, pc, b, recording, buf, last_voice_ts,
                   ts, writes, history>>

NextScenario ==
    \/ TickPaced
    \/ ScenarioCallback
    \/ Get
    \/ Classify
    \/ Check
    \/ StartWrite
    \/ FinishWrite

SpecScenario == InitScenario /\ [][NextScenario]_vars

(***************************************************************************)
(* The listener left to run: nobody interrupts it, the clock, the driver   *)
(* and the consumer loop each take their next step when they have one.     *)
(***************************************************************************)
InitFair ==
    /\ InitState
    /\ OthersIdle
    /\ silence_ms = 500
    /\ block_ms = 500
    /\ tick_ms = 500
    /\ zone = PlainZone

NextFair ==
    \/ Tick
    \/ Callback
    \/ Get
    \/ Classify
    \/ Check
    \/ StartWrite
    \/ WriteFail
    \/ FinishWrite

Fairness ==
    /\ WF_vars(Tick)
    /\ WF_vars(Callback)
    /\ WF_vars(Get)
    /\ WF_vars(Classify)
    /\ WF_vars(Check)
    /\ WF_vars(StartWrite \/ WriteFail)
    /\ WF_vars(FinishWrite)

SpecFair == InitFair /\ [][NextFair]_vars /\ Fairness

(***************************************************************************)
(* The listener across the end of daylight saving: a zone one hour ahead   *)
(* of UTC until the clocks are set back an hour, an hour into the run.     *)
(* The consumer keeps up with the driver, as in the scenario, and the run  *)
(* is held up once, for most of an hour.                                   *)
(***************************************************************************)
HourMs == 3600000   \* an hour, in ms

SwitchingZone == [offset |-> 3600, back_at |-> 3600, back_by |-> 3600]

InitZone ==
    /\ InitState
    /\ OthersIdle
    /\ silence_ms = 1000
    /\ block_ms = 500
    /\ tick_ms = 500
    /\ zone \in {PlainZone, SwitchingZone}

\* The clock moves on when the consumer waits for the next frame.
TickIdle ==
    /\ pc = "get"
    /\ q = <<>>
    /\ (now % HourMs) + tick_ms <= 1000 + MaxTicks * tick_ms
    /\ now' = now + tick_ms
    /\ UNCHANGED <<config, others, q, delivered, due, pc, b, recording, buf,
                   last_voice_ts, ts, writes, history>>

\* The process stands still in q.get() (line 145) until the clock is one second
\* past the hour, the machine being suspended or the process stopped: no block
\* is delivered meanwhile, and the driver has one ready when it goes on.
IdleHour ==
    /\ pc = "get"
    /\ q = <<>>
    /\ now < HourMs
    /\ now' = HourMs + 1000
    /\ due' = HourMs + 1000
    /\ UNCHANGED <<config, others, q, delivered, pc, b, recording, buf, last_voice_ts,
                   ts, writes, history>>

NextZone ==
    \/ TickIdle
    \/ IdleHour
    \/ Callback
    \/ Get
    \/ Classify
    \/ Check
    \/ StartWrite
    \/ FinishWrite

SpecZone == InitZone /\ [][NextZone]_vars

(***************************************************************************)
(* Device resolution at startup: pick_input_device (lines 50-70), called   *)
(* by main() at lines 107-112.  A str is a sequence of one-character       *)
(* strings.  A selector is None, an int or a str: kind tells which, val is *)
(* the str and num the int.                                                *)
(***************************************************************************)
MaxDevices == 3     \* length of the device lists explored

Digits == {"0", "1", "2", "3", "4", "5", "6", "7", "8", "9"}

DigitVal(c) ==
    CASE c = "0" -> 0 [] c = "1" -> 1 [] c = "2" -> 2 [] c = "3" -> 3 [] c = "4" -> 4
      [] c = "5" -> 5 [] c = "6" -> 6 [] c = "7" -> 7 [] c = "8" -> 8 [] c = "9" -> 9

\* Characters that str.isdigit() accepts and int() does not: digits that are
\* not decimal digits, as the superscript two (U+00B2), written "^2" here.
OtherDigits == {"^2"}

\* str.isdigit(): at least one character, and every character a digit.
IsDigit(str) ==
    Len(str) > 0 /\ \A i \in 1..Len(str) : str[i] \in Digits \cup OtherDigits

\* int(str) takes decimal digits only; on any other digit it raises ValueError.
IsDecimal(str) == Len(str) > 0 /\ \A i \in 1..Len(str) : str[i] \in Digits

\* int(str) of a decimal string: its value, leading zeros allowed.
RECURSIVE IntOf(_)
IntOf(str) ==
    IF str = <<>> THEN 0
    ELSE 10 * IntOf(SubSeq(str, 1, Len(str) - 1)) + DigitVal(str[Len(str)])

\* str.lower(): a capital letter A-Z becomes its small letter, and a digit, a
\* small letter or the superscript two stays as it is.
Capitals ==
    <<"A", "B", "C", "D", "E", "F", "G", "H", "I", "J", "K", "L", "M",
      "N", "O", "P", "Q", "R", "S", "T", "U", "V", "W", "X", "Y", "Z">>

Smalls ==
    <<"a", "b", "c", "d", "e", "f", "g", "h", "i", "j", "k", "l", "m",
      "n", "o", "p", "q", "r", "s", "t", "u", "v", "w", "x", "y", "z">>

LowerChar(c) ==
    IF \E i \in 1..Len(Capitals) : Capitals[i] = c
    THEN Smalls[CHOOSE i \in 1..Len(Capitals) : Capitals[i] = c]
    ELSE c

Lower(str) == [i \in 1..Len(str) |-> LowerChar(str[i])]

\* name in text: name occurs in text as a contiguous run (the empty str does).
Contains(name, text) ==
    \E i \in 0..(Len(text) - Len(name)) : SubSeq(text, i + 1, i + Len(name)) = name

\* line 58: sd.check_input_settings(device=idx, channels=1) raises unless idx
\* is a device of the list and that device has an input channel.
CheckInputOk(list, idx) ==
    /\ idx \in 0..(Len(list) - 1)
    /\ list[idx + 1].max_input_channels >= 1

Resolved(i) == [st |-> "ok", idx |-> i]
Raised == [st |-> "error", idx |-> 0]

\* Variant: the name test alone, without the test of the input channels.
MatchesAnyDevice(name, d) == Contains(name, Lower(d.name))

\* line 63: d["max_input_channels"] > 0 and name in d["name"].lower()
Matches(name, d) == d.max_input_channels > 0 /\ Contains(name, Lower(d.name))

\* lines 62-65: the first device from index i on that matches, or RuntimeError.
RECURSIVE FirstNamed(_, _, _)
FirstNamed(list, name, i) ==
    IF i >= Len(list) THEN Raised
    ELSE IF Matches(name, list[i + 1]) THEN Resolved(i)
    ELSE FirstNamed(list, name, i + 1)

\* lines 67-70: the first device from index i on with an input channel, or
\* RuntimeError.
RECURSIVE FirstInput(_, _)
FirstInput(list, i) ==
    IF i >= Len(list) THEN Raised
    ELSE IF list[i + 1].max_input_channels > 0 THEN Resolved(i)
    ELSE FirstInput(list, i + 1)

\* line 56: isinstance(preferred, int) or (isinstance(preferred, str) and
\* preferred.isdigit())
IsNumeric(sel) == sel.kind = "int" \/ (sel.kind = "str" /\ IsDigit(sel.val))

\* lines 50-70.  Every exception (RuntimeError, the error of
\* check_input_settings, ValueError of int) is Raised: main() treats them alike.
PickInputDevice(list, sel) ==
    IF sel.kind # "none" THEN
        IF IsNumeric(sel) THEN
            IF sel.kind = "str" /\ ~IsDecimal(sel.val) THEN Raised
            ELSE LET idx == IF sel.kind = "int" THEN sel.num ELSE IntOf(sel.val)
                 IN  IF CheckInputOk(list, idx) THEN Resolved(idx) ELSE Raised
        ELSE FirstNamed(list, Lower(sel.val), 0)
    ELSE FirstInput(list, 0)

\* The device lists and selectors explored.
DeviceNames ==
    { <<"U", "S", "B">>, <<"M", "i", "c">>, <<"u", "s", "b", "2">>, <<"m", "^2">> }

Devices == [name : DeviceNames, max_input_channels : {0, 2}]

DeviceLists == UNION { [1..n -> Devices] : n \in 0..MaxDevices }

Selectors ==
    {NoSelector}
        \cup { [kind |-> "int", val |-> <<>>, num |-> n] : n \in 0..MaxDevices }
        \cup { [kind |-> "str", val |-> v, num |-> 0] :
                 v \in { <<>>, <<"1">>, <<"0", "2">>, <<"u", "s", "b">>, <<"U", "s">>,
                         <<"m", "I">>, <<"M", "I", "C">>, <<"b", "2">>, <<"x">>,
                         <<"^2">> } }

InitDevice ==
    /\ InitState
    /\ silence_ms = 1500
    /\ block_ms = 30
    /\ tick_ms = 10
    /\ zone = PlainZone
    /\ devs \in DeviceLists
    /\ preferred \in Selectors
    /\ chosen = NoChoice
    /\ samples = <<>>
    /\ verdict = NoVerdict
    /\ wpc = "off"
    /\ todo = <<>>
    /\ seen = {}
    /\ handed = <<>>
    /\ skipped = {}
    /\ polls = 0

\* lines 107-112: main() resolves the device once, before the stream is opened.
PickDevice ==
    /\ chosen.st = "unset"
    /\ chosen' = PickInputDevice(devs, preferred)
    /\ UNCHANGED <<now, config, q, delivered, due, pc, b, recording, buf,
                   last_voice_ts, ts, writes, history, devs, preferred, classifier,
                   watcher, ending>>

NextDevice == PickDevice

SpecDevice == InitDevice /\ [][NextDevice]_vars

(***************************************************************************)
(* The energy classifier: is_speech_chunk of build_vad_fn without webrtcvad*)
(* (lines 80-88).  A frame is the sequence of its int16 samples, as        *)
(* np.frombuffer(b, dtype=np.int16) reads them.                            *)
(***************************************************************************)
MaxSamples == 3     \* length of the frames explored

\* line 82: THRESH = 300.0
THRESH == 300

\* A value kept in 16 bits, two's complement.
Wrap16(v) == ((v + 32768) % 65536) - 32768

\* line 87: np.abs on an int16 array gives an int16 array: the negation of a
\* negative sample is kept in 16 bits.
Abs16(x) == IF x < 0 THEN Wrap16(0 - x) ELSE x

RECURSIVE SumAbs16(_)
SumAbs16(arr) ==
    IF arr = <<>> THEN 0 ELSE Abs16(Head(arr)) + SumAbs16(Tail(arr))

\* lines 84-87.  mean() adds the int16 values up in float64 and divides by
\* arr.size; for sums of this size the quotient exceeds 300.0 exactly when the
\* sum exceeds 300 * arr.size.
IsSpeechChunk(arr) ==
    IF Len(arr) = 0 THEN FALSE
    ELSE SumAbs16(arr) > THRESH * Len(arr)

\* The sample values explored: both ends of the int16 range, silence, and
\* values on either side of the threshold.
SampleValues == {-32768, -301, -100, 0, 300, 301, 400, 32767}

Frames == UNION { [1..n -> SampleValues] : n \in 0..MaxSamples }

InitEnergy ==
    /\ InitState
    /\ silence_ms = 1500
    /\ block_ms = 30
    /\ tick_ms = 10
    /\ zone = PlainZone
    /\ devs = <<>>
    /\ preferred = NoSelector
    /\ chosen = NoChoice
    /\ samples \in Frames
    /\ verdict = NoVerdict
    /\ wpc = "off"
    /\ todo = <<>>
    /\ seen = {}
    /\ handed = <<>>
    /\ skipped = {}
    /\ polls = 0

\* line 147: the frame is given to is_speech_chunk.
ClassifyFrame ==
    /\ ~verdict.done
    /\ verdict' = [done |-> TRUE, speech |-> IsSpeechChunk(samples)]
    /\ UNCHANGED <<now, config, q, delivered, due, pc, b, recording, buf,
                   last_voice_ts, ts, writes, history, startup, samples, watcher,
                   ending>>

NextEnergy == ClassifyFrame

SpecEnergy == InitEnergy /\ [][NextEnergy]_vars

(***************************************************************************)
(* The clip watcher, capture_and_parse.main() (lines 33-55), running as a  *)
(* second process on the audio directory the listener writes to.  The      *)
(* directory is read off the listener's state: wave.open(path, "wb")       *)
(* creates or truncates the file (StartWrite), writeframes and the close   *)
(* complete it (FinishWrite).  An entry is [stem, wav]: a clip clip_<stem> *)
(* with the extension .wav, or an entry that does not end in .wav.         *)
(***************************************************************************)
MaxPolls == 3       \* listings the watcher takes

capture == <<now, config, q, delivered, due, pc, b, recording, buf, last_voice_ts,
             ts, writes, history, ending>>

ClipFile(n) == [stem |-> n, wav |-> TRUE]

\* An entry of AUDIO_DIR that is not a clip; it sorts before every clip_ name.
Stray == [stem |-> 0, wav |-> FALSE]

WrittenNames == {writes[k].name : k \in 1..Len(writes)}

\* os.listdir(AUDIO_DIR): the clips written, the clip being written, the files
\* a failed or interrupted write left behind, the stray.
DirNames ==
    {Stray} \cup {ClipFile(n) : n \in WrittenNames \cup torn}
            \cup (IF pc = "write" THEN {ClipFile(ts)} ELSE {})

\* The file holds a whole clip: written, not being rewritten right now, and
\* not left partly rewritten.
Complete(n) == n \in WrittenNames /\ n \notin torn /\ ~(pc = "write" /\ ts = n)

\* Number of times the listener has opened the name for writing: the writes
\* completed, the write in progress, and the write that failed or was
\* interrupted (the last thing the listener did).
Version(n) ==
    Cardinality({k \in 1..Len(writes) : writes[k].name = n})
        + (IF pc = "write" /\ ts = n THEN 1 ELSE 0)
        + (IF n \in torn THEN 1 ELSE 0)

\* line 37: sorted(...); the names sort as their stems do.
RECURSIVE Sorted(_)
Sorted(S) ==
    IF S = {} THEN <<>>
    ELSE LET m == CHOOSE x \in S : \A y \in S : x.stem <= y.stem
         IN  <<m>> \o Sorted(S \ {m})

\* line 38: fname.endswith(".wav")
EndsWithWav(f) == f.wav

\* Variant: a watcher that takes no path for seen.
AlreadySeenNever(f, s) == FALSE

\* line 40: full in seen
AlreadySeen(f, s) == f \in s

\* What transcribe, parse_with_llm and log_entry can end in (lines 43-54): a
\* logged entry, an empty transcript, one of the two exceptions caught, or any
\* other exception (KeyError on j["text"], OSError from the logger, ...).
Outcomes == {"logged", "empty", "CalledProcessError", "JSONDecodeError", "uncaught"}

InitWatch ==
    /\ InitState
    /\ silence_ms = 200
    /\ block_ms = 250
    /\ tick_ms = 250
    /\ zone = PlainZone
    /\ devs = <<>>
    /\ preferred = NoSelector
    /\ chosen = NoChoice
    /\ samples = <<>>
    /\ verdict = NoVerdict
    /\ wpc = "list"
    /\ todo = <<>>
    /\ seen = {}
    /\ handed = <<>>
    /\ skipped = {}
    /\ polls = 0

\* line 37: the for-loop takes the sorted listing as it is at this moment.
Poll ==
    /\ wpc = "list"
    /\ polls < MaxPolls
    /\ todo' = Sorted(DirNames)
    /\ polls' = polls + 1
    /\ wpc' = "visit"
    /\ UNCHANGED <<capture, startup, classifier, seen, handed, skipped>>

\* lines 37-44: the next name of the listing; a new .wav path goes into seen
\* and then to transcribe().
Visit ==
    /\ wpc = "visit"
    /\ todo # <<>>
    /\ LET f == Head(todo)
       IN  /\ todo' = Tail(todo)
           /\ IF ~EndsWithWav(f)
                THEN UNCHANGED <<wpc, seen, handed, skipped>>
              ELSE IF AlreadySeen(f, seen)
                THEN /\ skipped' = skipped \cup
                                     {[name |-> f.stem, version |-> Version(f.stem)]}
                     /\ UNCHANGED <<wpc, seen, handed>>
              ELSE /\ seen' = seen \cup {f}
                   /\ handed' = Append(handed, [name |-> f.stem,
                                                complete |-> Complete(f.stem),
                                                version |-> Version(f.stem),
                                                result |-> "running"])
                   /\ wpc' = "process"
                   /\ UNCHANGED skipped
    /\ UNCHANGED <<capture, startup, classifier, polls>>

\* lines 44-54: the clip is transcribed, parsed and logged; the loop goes on to
\* the next name unless an exception other than the two caught ends main().
Process ==
    /\ wpc = "process"
    /\ \E r \in Outcomes :
         /\ handed' = [handed EXCEPT ![Len(handed)].result = r]
         /\ wpc' = IF r = "uncaught" THEN "dead" ELSE "visit"
    /\ UNCHANGED <<capture, startup, classifier, todo, seen, skipped, polls>>

\* line 55: the listing is through; time.sleep(2), then the next listing.
Sleep ==
    /\ wpc = "visit"
    /\ todo = <<>>
    /\ wpc' = "list"
    /\ UNCHANGED <<capture, startup, classifier, todo, seen, handed, skipped, polls>>

NextWatch ==
    \/ TickIdle
    \/ Callback
    \/ Get
    \/ Classify
    \/ Check
    \/ StartWrite
    \/ WriteFail
    \/ FinishWrite
    \/ Interrupt
    \/ Poll
    \/ Visit
    \/ Process
    \/ Sleep

SpecWatch == InitWatch /\ [][NextWatch]_vars

(***************************************************************************)
(* Properties.                                                             *)
(***************************************************************************)

\* A step that completes the writing of a clip.
Emits == Len(writes') = Len(writes) + 1

\* Position of frame id x in a sequence of ids.
PosIn(s, x) == CHOOSE i \in 1..Len(s) : s[i] = x

\* What C1 asks of a step.
C1_Step ==
    /\ (~recording /\ recording') =>
           /\ pc = "classify"
           /\ b.sp
           /\ b.id = Last(consumed)
           /\ b' = b
           /\ opener'.frame = b
    /\ Emits =>
           /\ Last(writes').frames # <<>>
           /\ Last(writes').frames[1] = opener.frame.id
           /\ opener.frame.sp

\* C1: recording goes from False to True only in the classification step of a
\* frame classified speech (the frame just returned by q.get()), and every clip
\* written starts with the frame on which its recording was opened.
C1_OpensOnSpeechFrame == [][C1_Step]_vars

\* C1 witness: a clip was written whose opening frame came after a non-speech
\* frame that was consumed in Idle.
C1_Witness ==
    /\ writes # <<>>
    /\ writes[1].frames[1] = 2
    /\ Len(writes[1].frames) >= 2

\* C2: every recording episode that has ended was written exactly once and the
\* one in progress not yet; a clip is only written when more than silence_ms
\* has passed since the last frame classified speech was classified (hence
\* also since it arrived); and when the loop is back at q.get() after the
\* frame that completed a clip, the state is Idle with an empty buffer.
C2_FinalizedOnceAfterSilence ==
    /\ episodes = Len(writes) + (IF recording THEN 1 ELSE 0)
    /\ pc \in {"finalize", "write"} =>
           /\ recording
           /\ voice.frame.sp
           /\ now - voice.at > silence_ms
           /\ now - voice.frame.at > silence_ms
    /\ (pc = "get" /\ writes # <<>> /\ Last(Last(writes).frames) = Last(consumed)) =>
           /\ ~recording
           /\ buf = <<>>

\* C2 witness: two episodes, each written once, and the loop is Idle.
C2_Witness ==
    /\ Len(writes) = 2
    /\ episodes = 2
    /\ pc = "get"
    /\ ~recording

\* What C3 asks of a step that completes a clip.
C3_Step ==
    Emits =>
        LET first == PosIn(consumed, opener.frame.id)
        IN  /\ Last(writes').frames = SubSeq(consumed, first, Len(consumed))
            /\ Len(Last(writes').frames) = Len(consumed) - first + 1
            /\ Last(consumed) = b.id

\* C3: a clip holds exactly the frames returned by q.get() from the frame that
\* opened the recording up to the frame on which the silence test fired, in
\* that order, each once.
C3_ClipIsContiguousRun == [][C3_Step]_vars

\* C3 witness: a clip of four frames, with a non-speech frame between two
\* speech frames and a trailing non-speech frame.
C3_Witness ==
    /\ writes # <<>>
    /\ writes[1].frames = <<1, 2, 3, 4>>
    /\ voice.frame.id = 3

\* The frames 1..n in delivery order.
FirstFrames(n) == [i \in 1..n |-> i]

\* The whole scenario has been consumed and the loop waits for a frame.
ScenarioOver ==
    /\ Len(consumed) = Len(ScenarioSpeech)
    /\ pc = "get"

\* C4 as stated: the clip of the scenario, both speech frames being stamped on
\* arrival, holds exactly the first 7 frames, and once the scenario is over one
\* clip has been written.
C4_Original ==
    /\ (/\ writes # <<>>
        /\ writes[1].opened = opener.frame.at
        /\ writes[1].voiced = writes[1].opened + block_ms)
           => writes[1].frames = FirstFrames(7)
    /\ ScenarioOver => Len(writes) = 1

\* What the amended C4 asks of a state, and of the silence test on the 7th frame.
C4_State ==
    /\ Len(writes) <= 1
    /\ writes # <<>> => writes[1].frames \in {FirstFrames(7), FirstFrames(8)}
    /\ ScenarioOver => (Len(writes) = 1 /\ ~recording /\ buf = <<>>)

C4_Step ==
    (pc = "check" /\ pc' # "check" /\ b.id = 7) =>
        /\ (now - b.at > last_voice_ts - voice.frame.at) => pc' = "finalize"
        /\ (now - b.at < last_voice_ts - voice.frame.at) => pc' = "get"

\* C4 amended: the silence test is strict, so on the 7th frame, 150 ms after
\* the 2nd, it fires when the 7th frame's test reads the clock later after that
\* frame's arrival than the 2nd frame was stamped after its own, and not when
\* it reads it sooner; when the two readings are exactly 150 ms apart it fires
\* or not, as the floating-point product comes out above 150 or not.  When it
\* does not fire it fires on the 8th frame.  The one clip holds the first 7 or
\* the first 8 frames, and the frames after it are consumed in Idle and appear
\* in no clip.
C4_ScenarioSeventhOrEighth == []C4_State /\ [][C4_Step]_vars

\* C4 witness: the scenario is over, the clip holds the first 8 frames (both
\* speech frames were stamped on arrival), and the loop is Idle.
C4_Witness ==
    /\ ScenarioOver
    /\ Len(writes) = 1
    /\ writes[1].frames = FirstFrames(8)
    /\ writes[1].voiced = writes[1].opened + block_ms
    /\ ~recording

\* C5 as stated: whenever last_voice_ts is set, it is the arrival time of the
\* last frame classified speech (the clock when the callback delivered it).
C5_StampIsArrival ==
    last_voice_ts # 0 => last_voice_ts = voice.frame.at

\* C6 as stated: the name under which a clip is written is the arrival time of
\* the frame that opened the recording, truncated to the second.
C6_NamedByCaptureStart ==
    pc = "write" => ts = ClipName(opener.frame.at)

\* C7 as stated: a failing write_wav loses that utterance only, the loop goes
\* on: the consumer is never thrown out of its loop by a write failure.
C7_WriteFailureIsSurvived ==
    ~(pc = "crashed" /\ cause = "write_error")

\* What C8 asks of the step in which the interrupt arrives.
C8_Step ==
    (recording /\ cause = "none" /\ cause' = "interrupt") =>
        /\ pc' = "done"
        /\ writes' = writes
        /\ torn' = torn

\* C8 as stated: when the interrupt arrives while recording is True, the loop
\* is left normally (not by an error) and no clip file is written or left
\* behind for the utterance.
C8_InterruptDiscards == [][C8_Step]_vars

\* C9 as stated: of two consecutive clips, the second is completed more than silence_ms
\* after the first, and its opening frame is consumed more than silence_ms
\* after the last speech frame of the first; with silence_ms >= 1000 no two
\* clips of a run have the same name.
C9_ClipsSpacedBySilence ==
    /\ \A k \in 1..(Len(writes) - 1) :
           /\ writes[k + 1].at - writes[k].at > silence_ms
           /\ writes[k + 1].opened - writes[k].voiced > silence_ms
    /\ silence_ms >= 1000 =>
           \A j, k \in 1..Len(writes) : j # k => writes[j].name # writes[k].name

\* The ids of a sequence of frames.
Ids(frames) == [i \in 1..Len(frames) |-> frames[i].id]

\* C10: the frames returned by q.get() so far, followed by the frames still
\* queued, are exactly the frames the callback delivered, in delivery order,
\* each once; the frame being classified and tested is the one last returned.
C10_HandOffIsFifo ==
    /\ consumed \o Ids(q) = FirstFrames(delivered)
    /\ pc \in {"classify", "check", "finalize", "write"} => b.id = Last(consumed)
    /\ \A i, j \in 1..Len(q) : i < j => q[i].at <= q[j].at

\* C10 witness: the callback ran ahead of the consumer (two frames waiting)
\* after two frames were consumed.
C10_Witness ==
    /\ Len(q) >= 2
    /\ Len(consumed) >= 2
    /\ pc = "check"

\* C11: whenever the driver has a block ready, the callback can deliver it at
\* once, whatever the number of frames waiting and wherever the consumer is in
\* its loop: q.put never waits.
C11_PutNeverBlocks ==
    (Running /\ delivered < MaxFrames /\ now >= due) => ENABLED Callback

\* C11 witness: a frame was delivered while others were waiting and the
\* consumer was writing a clip.
C11_Witness ==
    /\ pc = "write"
    /\ Len(q) >= 2
    /\ Last(q).at = now
    /\ Last(q).at > opener.at

\* C17 as stated: the frames waiting in the queue never exceed a fixed
\* capacity, however far the consumer falls behind; here for any capacity
\* smaller than the number of frames the source delivers.
C17_QueueBounded ==
    Len(q) < MaxFrames

\* What C15 asks of a step of the loop on a non-speech frame in Idle.
C15_Step ==
    (pc \in {"classify", "check"} /\ pc' # pc /\ ~recording /\ ~b.sp) =>
        /\ ~recording'
        /\ buf = <<>>
        /\ buf' = <<>>
        /\ last_voice_ts' = last_voice_ts
        /\ writes' = writes
        /\ pc' \in {"check", "get", "done"}
        /\ pc = "check" /\ pc' # "done" => pc' = "get"

\* C15: classifying and testing a non-speech frame while not recording leaves
\* recording False, the buffer empty, last_voice_ts and the clips as they
\* were, and takes the loop back to q.get(): the frame is dropped.
C15_IdleSilenceIsNoOp == [][C15_Step]_vars

\* C15 witness: after a clip was written, a non-speech frame was consumed in
\* Idle; last_voice_ts is still that of the clip.
C15_Witness ==
    /\ pc = "get"
    /\ ~recording
    /\ writes # <<>>
    /\ Last(consumed) > Last(Last(writes).frames)
    /\ last_voice_ts = Last(writes).voiced
    /\ buf = <<>>

\* The frames (ids) of a sequence, as a set.
Range(s) == {s[i] : i \in 1..Len(s)}

\* C16: there is one buffer, and it holds frames of the one episode open, if
\* any: it is empty whenever recording is False, no frame of a written clip is
\* still in it, and no frame is in two clips.
C16_OneUtteranceNoLeftovers ==
    /\ ~recording => buf = <<>>
    /\ \A i \in 1..Len(buf) : buf[i] >= opener.frame.id
    /\ \A k \in 1..Len(writes) : Range(writes[k].frames) \cap Range(buf) = {}
    /\ \A j, k \in 1..Len(writes) :
           j < k => Range(writes[j].frames) \cap Range(writes[k].frames) = {}

\* C16 witness: a clip was written and a later utterance is being buffered.
C16_Witness ==
    /\ Len(writes) = 1
    /\ recording
    /\ Len(buf) >= 1
    /\ pc = "get"

\* Recording, with more than silence_ms on the clock since last_voice_ts.
SilenceElapsed ==
    /\ recording
    /\ last_voice_ts # 0
    /\ now - last_voice_ts > silence_ms

\* The consumer waits on an empty queue: every frame delivered so far has
\* been handled.
SourceDry == pc = "get" /\ q = <<>>

\* C14 as stated: once recording with more than silence_ms elapsed since the
\* last speech frame, the state becomes Idle again (the utterance is
\* finalized), unless the frames run out first.
C14_EventuallyFinalized ==
    SilenceElapsed ~> (~recording \/ SourceDry)

InputCapable(list) == {i \in 0..(Len(list) - 1) : list[i + 1].max_input_channels > 0}

NameHits(list, str) ==
    {i \in InputCapable(list) : Contains(Lower(str), Lower(list[i + 1].name))}

Lowest(S) == CHOOSE i \in S : \A j \in S : i <= j

\* What the selector asks for: the device indexes it can resolve to.  A
\* numeric selector is an int or a string of decimal digits.
Candidates(list, sel) ==
    IF sel.kind = "none" THEN InputCapable(list)
    ELSE IF sel.kind = "int" THEN InputCapable(list) \cap {sel.num}
    ELSE IF IsDecimal(sel.val) THEN InputCapable(list) \cap {IntOf(sel.val)}
    ELSE NameHits(list, sel.val)

\* C12 as stated: once the device is resolved, the outcome is the lowest index
\* among the devices the selector asks for (the input-capable device at the
\* given index for a numeric selector, the input-capable devices whose name
\* contains the selector case-insensitively for any other string, every
\* input-capable device without a selector), and it is an error exactly when
\* there is no such device.
C12_DeviceResolution ==
    chosen.st # "unset" =>
        LET C == Candidates(devs, preferred)
        IN  /\ C = {} => chosen.st = "error"
            /\ C # {} => chosen = Resolved(Lowest(C))

Magnitude(x) == IF x < 0 THEN 0 - x ELSE x

RECURSIVE SumMagnitudes(_)
SumMagnitudes(arr) ==
    IF arr = <<>> THEN 0 ELSE Magnitude(Head(arr)) + SumMagnitudes(Tail(arr))

\* C13 as stated: the classifier answers true exactly when the mean of the
\* absolute values of the samples is strictly greater than 300, and false
\* otherwise, the empty frame included.
C13_MeanAbsoluteAboveThreshold ==
    verdict.done =>
        (verdict.speech <=>
            (Len(samples) > 0 /\ SumMagnitudes(samples) > 300 * Len(samples)))

\* C18 as stated: every clip handed to transcribe() was completely written when
\* it was handed over.
C18_HandedOnlyWhenWritten ==
    \A i \in 1..Len(handed) : handed[i].complete

\* C19: no path is handed to transcribe() twice, whatever the outcomes were and
\* however often the name was listed or the file rewritten.
C19_HandedAtMostOnce ==
    \A i, j \in 1..Len(handed) : i # j => handed[i].name # handed[j].name

\* A clip whose processing failed, overwritten afterwards under the same name,
\* listed again in a later round and passed over.
C19_Witness ==
    /\ Len(handed) = 1
    /\ handed[1].result = "CalledProcessError"
    /\ handed[1].complete
    /\ handed[1].version = 1
    /\ [name |-> handed[1].name, version |-> 2] \in skipped
    /\ polls >= 2
    /\ wpc = "list"

====
